---- MODULE Spec2Model ----
(***************************************************************************)
(* Model of the LinkedIn lead-generation pipeline: the submission and      *)
(* cancellation route handlers, the Bull dispatch queue, the worker        *)
(* processor (scrape -> filter -> score -> persist -> export) and the pure *)
(* agency classifier and lead scorer.                                      *)
(*                                                                         *)
(* Conventions.  A JavaScript string is a sequence of one-character        *)
(* strings.  An optional value is the empty tuple (undefined) or a         *)
(* one-element tuple holding the value.  A job description is represented  *)
(* by its length only (the code reads nothing else of it).                 *)
(***************************************************************************)
EXTENDS Integers, Sequences, FiniteSets, TLC

VARIABLES
  jobs,       \* store: the jobs table, job id -> row
  companies,  \* store: the companies table, in insertion order
  leads,      \* store: the leads table, in insertion order
  exportLogs, \* store: the export_logs table, in insertion order
  queue,      \* Bull queue: job id -> [state, attemptsMade]
  w,          \* the worker's processor invocation per job (locals + position)
  inflight,   \* un-awaited db.update calls issued by the onProgress callback
  del,        \* the DELETE /api/jobs/[id] handler per job (locals + position)
  post,       \* the POST /api/jobs handler (locals + position)
  hist,       \* per job: which external calls have been made so far (observation)
  faults,     \* number of exceptions the environment has raised so far
  site,       \* the search results the extractor sees: one entry per result page
  scoreIn,    \* scorer harness: the listing handed to calculateLeadScore
  scoreOut,   \* scorer harness: <<>> before the call, <<score>> after it
  agencyOut,  \* classifier harness: <<>> before the call, then the name and the result
  get         \* the GET /api/jobs handler (locals + position, last response)

vars == <<jobs, companies, leads, exportLogs, queue, w, inflight, del, post, hist,
          faults, site, scoreIn, scoreOut, agencyOut, get>>

pipelineVars ==
  <<jobs, companies, leads, exportLogs, queue, w, inflight, del, post, hist, faults, get>>

-----------------------------------------------------------------------------
(* Optional values and JavaScript helpers *)

Undefined == <<>>

Some(v) == <<v>>

\* JavaScript truthiness of an optional string: defined and non-empty
TruthyStr(o) == o # Undefined /\ o[1] # <<>>

Min(a, b) == IF a < b THEN a ELSE b

Max(a, b) == IF a > b THEN a ELSE b

\* a JavaScript number that need not be an integer (maxPages) is counted in
\* halves: Halves(n) is the integer n, Halves(1) + 1 is 1.5
Halves(n) == 2 * n

\* the number (counted in halves) is an integer
IsInteger(x) == x % 2 = 0

\* Math.round(num / den) for num >= 0, den > 0 (halves round up)
RoundDiv(num, den) == (2 * num + den) \div (2 * den)

UpperChars == <<"A","B","C","D","E","F","G","H","I","J","K","L","M","N","O","P","Q","R","S","T","U","V","W","X","Y","Z">>

LowerChars == <<"a","b","c","d","e","f","g","h","i","j","k","l","m","n","o","p","q","r","s","t","u","v","w","x","y","z">>

toLowerChar(c) ==
  IF \E i \in 1..Len(UpperChars) : UpperChars[i] = c
  THEN LowerChars[CHOOSE i \in 1..Len(UpperChars) : UpperChars[i] = c]
  ELSE c

\* String.prototype.toLowerCase
toLowerCase(s) == [i \in 1..Len(s) |-> toLowerChar(s[i])]

\* String.prototype.includes
includes(s, sub) ==
  \E i \in 0..(Len(s) - Len(sub)) :
    \A k \in 1..Len(sub) : s[i + k] = sub[k]

-----------------------------------------------------------------------------
(* Agency classifier *)

RECRUITMENT_AGENCY_KEYWORDS ==
  << <<"r","e","c","r","u","i","t","m","e","n","t">>,
     <<"r","e","c","r","u","i","t","e","r">>,
     <<"t","a","l","e","n","t">>,
     <<"s","t","a","f","f","i","n","g">>,
     <<"h","e","a","d","h","u","n","t","e","r">>,
     <<"e","x","e","c","u","t","i","v","e"," ","s","e","a","r","c","h">>,
     <<"c","o","n","s","u","l","t","i","n","g">>,
     <<"t","e","m","p"," ","a","g","e","n","c","y">>,
     <<"p","l","a","c","e","m","e","n","t">>,
     <<"r","e","s","o","u","r","c","e"," ","s","o","l","u","t","i","o","n","s">>,
     <<"p","e","o","p","l","e"," ","s","o","l","u","t","i","o","n","s">>,
     <<"w","o","r","k","f","o","r","c","e">>,
     <<"r","e","e","d">>,
     <<"a","d","e","c","c","o">>,
     <<"r","a","n","d","s","t","a","d">>,
     <<"h","a","y","s">>,
     <<"m","i","c","h","a","e","l"," ","p","a","g","e">>,
     <<"r","o","b","e","r","t"," ","h","a","l","f">>,
     <<"k","e","l","l","y"," ","s","e","r","v","i","c","e","s">>,
     <<"m","a","n","p","o","w","e","r">>,
     <<"a","l","l","e","g","i","s">> >>

\* mutant: the company name is matched as it is written
isRecruitmentAgency_caseSensitive(companyName) ==
  \E i \in 1..Len(RECRUITMENT_AGENCY_KEYWORDS) :
    includes(companyName, toLowerCase(RECRUITMENT_AGENCY_KEYWORDS[i]))

isRecruitmentAgency(companyName) ==
  LET name == toLowerCase(companyName)
  IN  \E i \in 1..Len(RECRUITMENT_AGENCY_KEYWORDS) :
        includes(name, toLowerCase(RECRUITMENT_AGENCY_KEYWORDS[i]))

-----------------------------------------------------------------------------
(* Lead scorer *)

qualityKeywords ==
  << <<"s","e","n","i","o","r">>,
     <<"l","e","a","d">>,
     <<"m","a","n","a","g","e","r">>,
     <<"d","i","r","e","c","t","o","r">>,
     <<"h","e","a","d"," ","o","f">> >>

\* job.hiringManager?.name and job.hiringManager?.email
hmField(job, f) == IF job.hiringManager = Undefined THEN Undefined ELSE job.hiringManager[1][f]

\* mutant: the final clamp to [0,100] is left out
calculateLeadScore_noClamp(job) ==
  LET s0 == 50
      s1 == IF ~isRecruitmentAgency(job.company) THEN s0 + 30 ELSE s0 - 20
      s2 == IF TruthyStr(hmField(job, "name")) THEN s1 + 15 ELSE s1
      s3 == IF TruthyStr(hmField(job, "email")) THEN s2 + 20 ELSE s2
      s4 == IF TruthyStr(job.salary) THEN s3 + 10 ELSE s3
      s5 == IF job.description # Undefined /\ job.description[1] > 200 THEN s4 + 5 ELSE s4
      titleLower == toLowerCase(job.title)
      s6 == IF \E i \in 1..Len(qualityKeywords) : includes(titleLower, qualityKeywords[i])
            THEN s5 + 10 ELSE s5
  IN  s6

\* mutant: the salary bonus is 15 instead of 10
calculateLeadScore_salary15(job) ==
  LET s0 == 50
      s1 == IF ~isRecruitmentAgency(job.company) THEN s0 + 30 ELSE s0 - 20
      s2 == IF TruthyStr(hmField(job, "name")) THEN s1 + 15 ELSE s1
      s3 == IF TruthyStr(hmField(job, "email")) THEN s2 + 20 ELSE s2
      s4 == IF TruthyStr(job.salary) THEN s3 + 15 ELSE s3
      s5 == IF job.description # Undefined /\ job.description[1] > 200 THEN s4 + 5 ELSE s4
      titleLower == toLowerCase(job.title)
      s6 == IF \E i \in 1..Len(qualityKeywords) : includes(titleLower, qualityKeywords[i])
            THEN s5 + 10 ELSE s5
  IN  Max(0, Min(100, s6))

\* mutant: a direct company earns 20 points instead of 30
calculateLeadScore_direct20(job) ==
  LET s0 == 50
      s1 == IF ~isRecruitmentAgency(job.company) THEN s0 + 20 ELSE s0 - 20
      s2 == IF TruthyStr(hmField(job, "name")) THEN s1 + 15 ELSE s1
      s3 == IF TruthyStr(hmField(job, "email")) THEN s2 + 20 ELSE s2
      s4 == IF TruthyStr(job.salary) THEN s3 + 10 ELSE s3
      s5 == IF job.description # Undefined /\ job.description[1] > 200 THEN s4 + 5 ELSE s4
      titleLower == toLowerCase(job.title)
      s6 == IF \E i \in 1..Len(qualityKeywords) : includes(titleLower, qualityKeywords[i])
            THEN s5 + 10 ELSE s5
  IN  Max(0, Min(100, s6))

calculateLeadScore(job) ==
  LET s0 == 50
      s1 == IF ~isRecruitmentAgency(job.company) THEN s0 + 30 ELSE s0 - 20
      s2 == IF TruthyStr(hmField(job, "name")) THEN s1 + 15 ELSE s1
      s3 == IF TruthyStr(hmField(job, "email")) THEN s2 + 20 ELSE s2
      s4 == IF TruthyStr(job.salary) THEN s3 + 10 ELSE s3
      s5 == IF job.description # Undefined /\ job.description[1] > 200 THEN s4 + 5 ELSE s4
      titleLower == toLowerCase(job.title)
      s6 == IF \E i \in 1..Len(qualityKeywords) : includes(titleLower, qualityKeywords[i])
            THEN s5 + 10 ELSE s5
  IN  Max(0, Min(100, s6))


-----------------------------------------------------------------------------
(* Bounds of the model and program constants *)

\* job ids the submission handler can draw (uuidv4 never repeats an id)
JobIds == {"j1"}

\* number of cancel requests issued per job
MaxCancels == 1

\* number of exceptions the environment raises (login, page, store, export, queue failures)
MaxFaults == 1

\* number of listing requests in a behaviour
MaxGets == 1

\* defaultJobOptions.attempts of the Bull queue
Attempts == 3

\* searchJobs: criteria.maxPages || 5
DefaultMaxPages == 5

\* "Only keep qualified leads (score > 40)"
QualificationThreshold == 40

-----------------------------------------------------------------------------
(* Inputs the environment supplies *)

Name_Acme == <<"A","c","m","e"," ","L","t","d">>

Name_HaysUpper == <<"H","A","Y","S"," ","p","l","c">>

Name_Staffingworks == <<"S","t","a","f","f","i","n","g","w","o","r","k","s"," ","A","n","a","l","y","t","i","c","s">>

Name_Breeders == <<"B","r","e","e","d","e","r","s"," ","C","o">>

Name_HaysLower == <<"h","a","y","s"," ","p","l","c">>

Name_HaysMixed == <<"H","a","Y","s"," ","p","l","c">>

Name_AcmeUpper == <<"A","C","M","E"," ","L","T","D">>

Name_RobertHalf == <<"R","O","B","E","R","T"," ","H","a","l","f"," ","L","L","C">>

Name_RobertHalfords == <<"R","o","b","e","r","t","s"," ","H","a","l","f","o","r","d","s">>

\* the company names handed to the classifier harness
CompanyNames ==
  {Name_Acme, Name_AcmeUpper, Name_HaysUpper, Name_HaysLower, Name_HaysMixed,
   Name_Staffingworks, Name_Breeders, Name_RobertHalf, Name_RobertHalfords, <<>>}

Title_Engineer == <<"E","n","g","i","n","e","e","r">>

Title_SeniorEng == <<"S","e","n","i","o","r"," ","E","n","g","i","n","e","e","r">>

Title_HeadOf == <<"H","E","A","D"," ","O","F"," ","F","i","n","a","n","c","e">>

Title_Leader == <<"T","e","a","m"," ","L","e","a","d","e","r">>

\* optional strings a listing may carry: undefined, empty, non-empty
OptStrings == {Undefined, Some(<<>>), Some(<<"x">>)}

\* hiringManager: undefined, or an object whose name and email are optional
HiringManagers ==
  {Undefined} \cup {Some([name |-> n, email |-> e]) : n \in OptStrings, e \in OptStrings}

\* description: undefined, or a string of the given length
Descriptions == {Undefined, Some(0), Some(200), Some(201)}

\* the listings handed to the scorer harness
ScoreInputs ==
  [company : {Name_Acme, Name_HaysUpper, Name_Staffingworks, Name_Breeders},
   title : {Title_Engineer, Title_SeniorEng, Title_HeadOf, Title_Leader},
   salary : OptStrings,
   description : Descriptions,
   hiringManager : HiringManagers]

\* what the detail page of a listing yields to extractJobDescription and
\* extractHiringManagerInfo ('' and undefined when it fails or has no such
\* section; never an email)
PoorDetail == [description |-> Some(0), hiringManager |-> Undefined]

RichDetail ==
  [description |-> Some(201),
   hiringManager |-> Some([name |-> Some(<<"x">>), email |-> Undefined])]

\* the cards a result page can show: what extractJobsFromPage yields for a card
\* (title and company; no salary, no description) and the card's detail page
Cards ==
  {[company |-> Name_Acme, title |-> Title_Engineer, detail |-> RichDetail],
   [company |-> Name_HaysUpper, title |-> Title_SeniorEng, detail |-> PoorDetail],
   [company |-> Name_HaysUpper, title |-> Title_SeniorEng, detail |-> RichDetail]}

\* number of cards on a result page
PageSizes == {0, 1}

\* number of result pages the site has for the search
SitePages == {1, 2}

\* integer values of maxPages a submission asks for
MaxPagesChoices == {1, 2}

\* the result pages of the search: the site does not change while a job lives,
\* so a re-run of the job sees the same pages and the same listing urls
Sites ==
  UNION {[1..len -> UNION {[1..n -> Cards] : n \in PageSizes}] : len \in SitePages}

-----------------------------------------------------------------------------
(* Store and queue helpers *)

Terminal == {"completed", "failed", "cancelled"}

\* the row db.insert(jobs).values({...}) creates
NewJobRow(criteria) ==
  [status |-> "pending", searchCriteria |-> criteria, progress |-> 0,
   totalJobsFound |-> 0, leadsGenerated |-> 0,
   errorMessage |-> Undefined, completedAt |-> FALSE]

\* the invocation record of the processor before any job is handed to it
IdleWorker ==
  [pc |-> "idle", criteria |-> [maxPages |-> Some(Halves(1)), excludeAgencies |-> Undefined],
   page |-> 0, jobListings |-> <<>>, idx |-> 1, processedCount |-> 0,
   validLeads |-> <<>>, leadScore |-> 0,
   qualified |-> 0, loopDone |-> FALSE, exportCalls |-> 0, fetched |-> {}, lastPage |-> 0,
   failedPage |-> 0, listingError |-> FALSE, exportFailed |-> FALSE,
   outcome |-> "none"]

IdleDelete == [pc |-> "idle", nreq |-> 0, response |-> 0, readStatus |-> "none"]

\* the listing handler before a request: nothing read, no response yet
IdleGet == [pc |-> "idle", nreq |-> 0, queueJobs |-> {}, response |-> Undefined]

NoHistory == [enriched |-> FALSE, exported |-> FALSE, cancelledPending |-> FALSE]

\* searchJobs: const maxPages = criteria.maxPages || 5
maxPagesOf(criteria) ==
  IF criteria.maxPages = Undefined \/ criteria.maxPages[1] = 0
  THEN Halves(DefaultMaxPages) ELSE criteria.maxPages[1]

\* searchCriteria.excludeAgencies as a condition
excludeAgenciesOf(criteria) ==
  criteria.excludeAgencies # Undefined /\ criteria.excludeAgencies[1]

-----------------------------------------------------------------------------
(* POST /api/jobs: the submission handler *)

\* request bodies: the searchCriteria field of the JSON body
Bodies ==
  [keywords : {<<>>, <<"f">>},
   location : {<<>>, <<"U">>},
   maxPages : {Some(Halves(n)) : n \in MaxPagesChoices}
                \cup {Some(Halves(1) + 1), Some(Halves(0)), Some(Halves(21))},
   excludeAgencies : {Undefined, Some(TRUE)}]

\* searchCriteriaSchema.safeParse(body.searchCriteria).success
safeParseSuccess(body) ==
  /\ Len(body.keywords) >= 1
  /\ Len(body.location) >= 1
  /\ (body.maxPages # Undefined
        => (body.maxPages[1] >= Halves(1) /\ body.maxPages[1] <= Halves(20)))

IdlePost == [pc |-> "idle", jobId |-> "none", criteria |-> Undefined, response |-> 0]

\* validation, uuidv4() and the awaited db.insert(jobs)
P_Submit ==
  /\ post.pc = "idle"
  /\ JobIds \ DOMAIN jobs # {}
  /\ \E body \in Bodies :
       IF ~safeParseSuccess(body)
       THEN /\ post' = [post EXCEPT !.response = 400]
            /\ UNCHANGED jobs
       ELSE \E id \in JobIds \ DOMAIN jobs :
              /\ jobs' = jobs @@ (id :> NewJobRow(body))
              /\ post' = [pc |-> "enqueue", jobId |-> id, criteria |-> Some(body),
                          response |-> 0]
  /\ UNCHANGED <<companies, leads, queue, w, inflight, del, hist, faults, scoreIn, scoreOut, site,
                 exportLogs, agencyOut, get>>

\* await addScrapingJob(...): scrapingQueue.add resolves, or rejects and the
\* handler's catch answers 500
P_Enqueue ==
  /\ post.pc = "enqueue"
  /\ \/ /\ queue' = queue @@ (post.jobId :> [state |-> "waiting", attemptsMade |-> 0,
                                             data |-> post.criteria[1]])
        /\ post' = [post EXCEPT !.pc = "idle", !.response = 200]
        /\ UNCHANGED faults
     \/ /\ faults < MaxFaults
        /\ faults' = faults + 1
        /\ post' = [post EXCEPT !.pc = "idle", !.response = 500]
        /\ UNCHANGED queue
  /\ UNCHANGED <<jobs, companies, leads, w, inflight, del, hist, scoreIn, scoreOut, site,
                 exportLogs, agencyOut, get>>

-----------------------------------------------------------------------------
(* DELETE /api/jobs/[id]: the cancellation handler *)

\* mutant: the handler forbids no cancellation
cancelForbidden_never(status) == FALSE

\* "Don't allow cancellation of completed jobs"
cancelForbidden(status) == status = "completed"

\* db.query.jobs.findFirst and the two early returns
D_Start(j) ==
  /\ del[j].pc = "idle"
  /\ del[j].nreq < MaxCancels
  /\ IF j \notin DOMAIN jobs
     THEN del' = [del EXCEPT ![j] = [pc |-> "idle", nreq |-> @.nreq + 1,
                                      response |-> 404, readStatus |-> "none"]]
     ELSE IF cancelForbidden(jobs[j].status)
     THEN del' = [del EXCEPT ![j] = [pc |-> "idle", nreq |-> @.nreq + 1,
                                      response |-> 400, readStatus |-> jobs[j].status]]
     ELSE del' = [del EXCEPT ![j] = [pc |-> "cancelJob", nreq |-> @.nreq + 1,
                                      response |-> 0, readStatus |-> jobs[j].status]]
  /\ UNCHANGED <<jobs, companies, leads, queue, w, inflight, post, hist, faults,
                 scoreIn, scoreOut, site,
                 exportLogs, agencyOut, get>>

\* cancelJob: getJob returns null (false), or job.remove() is called.  Bull
\* refuses to remove a job whose lock is held, which is the case while the
\* processor runs it: remove throws, the catch of cancelJob returns false.
D_CancelJob(j) ==
  /\ del[j].pc = "cancelJob"
  /\ \/ /\ j \notin DOMAIN queue
        /\ del' = [del EXCEPT ![j].pc = "idle", ![j].response = 500, ![j].readStatus = "none"]
        /\ UNCHANGED queue
     \/ /\ j \in DOMAIN queue
        /\ queue[j].state = "active"
        /\ del' = [del EXCEPT ![j].pc = "idle", ![j].response = 500, ![j].readStatus = "none"]
        /\ UNCHANGED queue
     \/ /\ j \in DOMAIN queue
        /\ queue[j].state # "active"
        /\ queue' = [k \in DOMAIN queue \ {j} |-> queue[k]]
        /\ del' = [del EXCEPT ![j].pc = "update"]
  /\ UNCHANGED <<jobs, companies, leads, w, inflight, post, hist, faults, scoreIn, scoreOut, site,
                 exportLogs, agencyOut, get>>

\* db.update(jobs).set({status: 'cancelled', updatedAt}) and the 200 response
D_Update(j) ==
  /\ del[j].pc = "update"
  /\ jobs' = [jobs EXCEPT ![j].status = "cancelled"]
  /\ del' = [del EXCEPT ![j].pc = "idle", ![j].response = 200, ![j].readStatus = "none"]
  /\ hist' = [hist EXCEPT ![j].cancelledPending = @ \/ del[j].readStatus = "pending"]
  /\ UNCHANGED <<companies, leads, queue, w, inflight, post, faults, scoreIn, scoreOut, site,
                 exportLogs, agencyOut, get>>

-----------------------------------------------------------------------------
(* GET /api/jobs: the listing handler *)

\* await Promise.all([getActiveJobs(), getWaitingJobs(), getCompletedJobs()]):
\* the ids of the active and waiting queue jobs (the completed ones are not
\* used), or a rejection that the handler's catch answers with 500
G_ReadQueue ==
  /\ get.pc = "idle"
  /\ get.nreq < MaxGets
  /\ \/ /\ get' = [pc |-> "findMany", nreq |-> get.nreq + 1,
                   queueJobs |-> {j \in DOMAIN queue : queue[j].state \in {"active", "waiting"}},
                   response |-> Undefined]
        /\ UNCHANGED faults
     \/ /\ faults < MaxFaults
        /\ faults' = faults + 1
        /\ get' = [pc |-> "idle", nreq |-> get.nreq + 1, queueJobs |-> {},
                   response |-> Some([status |-> 500, active |-> {}, completed |-> {}])]
  /\ UNCHANGED <<jobs, companies, leads, exportLogs, queue, w, inflight, del, post, hist, site,
                 scoreIn, scoreOut, agencyOut>>

\* status: dbJob?.status || 'pending'
activeEntry(j, dbJobs) ==
  [id |-> j, status |-> IF j \in DOMAIN dbJobs THEN dbJobs[j].status ELSE "pending"]

\* dbJobs.filter(job => job.status === 'completed' || job.status === 'failed')
completedEntries(dbJobs) ==
  {[id |-> j, status |-> dbJobs[j].status] :
     j \in {k \in DOMAIN dbJobs : dbJobs[k].status \in {"completed", "failed"}}}

\* await db.query.jobs.findMany({orderBy createdAt desc, limit: 50}), the two
\* buckets and the response (the store holds fewer than ten rows, so neither
\* limit: 50 nor slice(0, 10) drops one)
G_ReadStore ==
  /\ get.pc = "findMany"
  /\ get' = [get EXCEPT
               !.pc = "idle",
               !.queueJobs = {},
               !.response = Some([status |-> 200,
                                  active |-> {activeEntry(j, jobs) : j \in get.queueJobs},
                                  completed |-> completedEntries(jobs)])]
  /\ UNCHANGED <<jobs, companies, leads, exportLogs, queue, w, inflight, del, post, hist, faults,
                 site, scoreIn, scoreOut, agencyOut>>

-----------------------------------------------------------------------------
(* The worker: scrapingQueue.process('scrape-linkedin', ...) *)

\* Bull hands a waiting job to the processor
Dispatch(j) ==
  /\ j \in DOMAIN queue
  /\ queue[j].state = "waiting"
  /\ w[j].pc = "idle"
  /\ queue' = [queue EXCEPT ![j].state = "active"]
  /\ w' = [w EXCEPT ![j] = [IdleWorker EXCEPT !.pc = "setRunning",
                                              !.criteria = queue[j].data]]
  /\ UNCHANGED <<jobs, companies, leads, inflight, del, post, hist, faults, scoreIn, scoreOut, site,
                 exportLogs, agencyOut, get>>

\* await db.update(jobs).set({status: 'running', updatedAt})
W_SetRunning(j) ==
  /\ w[j].pc = "setRunning"
  /\ jobs' = [jobs EXCEPT ![j].status = "running"]
  /\ w' = [w EXCEPT ![j].pc = "login"]
  /\ UNCHANGED <<companies, leads, queue, inflight, del, post, hist, faults, scoreIn, scoreOut, site,
                 exportLogs, agencyOut, get>>

\* scraper.initialize() and scraper.login(): success, or the throw that fails the run
W_Login(j) ==
  /\ w[j].pc = "login"
  /\ \/ /\ w' = [w EXCEPT ![j].pc = "progress10"]
        /\ UNCHANGED faults
     \/ /\ faults < MaxFaults
        /\ faults' = faults + 1
        /\ w' = [w EXCEPT ![j].pc = "catch"]
  /\ UNCHANGED <<jobs, companies, leads, queue, inflight, del, post, hist, scoreIn, scoreOut, site,
                 exportLogs, agencyOut, get>>

\* await db.update(jobs).set({progress: 10})
W_Progress10(j) ==
  /\ w[j].pc = "progress10"
  /\ jobs' = [jobs EXCEPT ![j].progress = 10]
  /\ w' = [w EXCEPT ![j].pc = "search", ![j].page = 0]
  /\ UNCHANGED <<companies, leads, queue, inflight, del, post, hist, faults, scoreIn, scoreOut, site,
                 exportLogs, agencyOut, get>>

\* mutant: the export step runs whatever validLeads holds
exportWanted_always(validLeads) == TRUE

\* "Export to Google Sheets if we have leads"
exportWanted(validLeads) == Len(validLeads) > 0

\* where the processor goes once the listing loop is over
AfterLoop(wr) ==
  [wr EXCEPT !.loopDone = TRUE,
             !.pc = IF exportWanted(wr.validLeads) THEN "createSheet" ELSE "complete"]

\* mutant: the listing loop ends after its first iteration
NextListing_exportEarly(wr) == AfterLoop([wr EXCEPT !.idx = wr.idx + 1])

\* the listing loop's next iteration (or its end)
NextListing(wr) ==
  IF wr.idx + 1 > Len(wr.jobListings)
  THEN AfterLoop([wr EXCEPT !.idx = wr.idx + 1])
  ELSE [wr EXCEPT !.idx = wr.idx + 1, !.pc = "listings"]

\* searchJobs has returned: the listing loop starts (or is empty)
StartListings(wr) ==
  IF Len(wr.jobListings) = 0
  THEN AfterLoop([wr EXCEPT !.idx = 1])
  ELSE [wr EXCEPT !.idx = 1, !.pc = "listings"]

\* the progress the onProgress callback stores: Math.round(10 + progress.progress * 0.6)
\* with progress.progress = Math.round(((page + 1) / maxPages) * 100)
discoveryProgress(page, maxPages) ==
  RoundDiv(100 + 6 * RoundDiv(100 * Halves(page + 1), maxPages), 10)

\* what extractJobsFromPage returns on result page p, with the listing urls
PageJobs(p) ==
  IF p > Len(site) THEN <<>>
  ELSE [i \in 1..Len(site[p]) |->
          [url |-> 10 * p + i, company |-> site[p][i].company,
           title |-> site[p][i].title, detail |-> site[p][i].detail]]

\* the page shows a "Next" button
HasNextPage(p) == p < Len(site)

\* the loop of searchJobs ends after this iteration
searchEnds(page, maxPages, hasNextPage) == ~hasNextPage \/ Halves(page + 1) >= maxPages

\* one iteration of the page loop of searchJobs: goto + extractJobsFromPage,
\* the onProgress callback (its db.update is not awaited), the next-page check.
\* An exception is caught and the loop goes on with the next page.
W_FetchPage(j) ==
  /\ w[j].pc = "search"
  /\ LET wr == w[j]
         mp == maxPagesOf(wr.criteria)
     IN  \/ /\ faults < MaxFaults
            /\ faults' = faults + 1
            /\ LET w1 == [wr EXCEPT !.page = wr.page + 1,
                                    !.fetched = @ \cup {wr.page + 1},
                                    !.failedPage = IF @ = 0 THEN wr.page + 1 ELSE @]
               IN  w' = [w EXCEPT ![j] = IF Halves(wr.page + 1) >= mp
                                                THEN StartListings(w1) ELSE w1]
            /\ UNCHANGED inflight
         \/ LET pageJobs == PageJobs(wr.page + 1)
                hasNextPage == HasNextPage(wr.page + 1)
                all == wr.jobListings \o pageJobs
                w1 == [wr EXCEPT !.page = wr.page + 1,
                                 !.jobListings = all,
                                 !.fetched = @ \cup {wr.page + 1},
                                 !.lastPage = IF hasNextPage THEN @ ELSE wr.page + 1]
            IN  /\ inflight' = inflight \cup
                     {[jobId |-> j,
                       progress |-> discoveryProgress(wr.page, mp),
                       totalJobsFound |-> Len(all)]}
                /\ w' = [w EXCEPT ![j] = IF searchEnds(wr.page, mp, hasNextPage)
                                         THEN StartListings(w1) ELSE w1]
                /\ UNCHANGED faults
  /\ UNCHANGED <<jobs, companies, leads, queue, del, post, hist, scoreIn, scoreOut, site,
                 exportLogs, agencyOut, get>>

\* an un-awaited db.update of the onProgress callback reaches the store
LandProgress ==
  \E u \in inflight :
    /\ inflight' = inflight \ {u}
    /\ jobs' = [jobs EXCEPT ![u.jobId].progress = u.progress,
                            ![u.jobId].totalJobsFound = u.totalJobsFound]
    /\ UNCHANGED <<companies, leads, queue, w, del, post, hist, faults, scoreIn, scoreOut, site,
                 exportLogs, agencyOut, get>>

\* mutant: a score equal to the threshold qualifies too
qualifies_atLeast(leadScore) == leadScore >= QualificationThreshold

\* "Only keep qualified leads (score > 40)"
qualifies(leadScore) == leadScore > QualificationThreshold

\* searchCriteria.excludeAgencies && isRecruitmentAgency(jobListing.company)
skipListing(criteria, listing) ==
  excludeAgenciesOf(criteria) /\ isRecruitmentAgency(listing.company)

\* top of one iteration of the listing loop: the agency skip, the two detail
\* fetches (both swallow their own errors) and the score
W_Enrich(j) ==
  /\ w[j].pc = "listings"
  /\ LET wr == w[j]
         listing == wr.jobListings[wr.idx]
     IN  IF skipListing(wr.criteria, listing)
         THEN /\ w' = [w EXCEPT ![j] = NextListing(wr)]
              /\ UNCHANGED hist
         ELSE LET enhancedJob == [company |-> listing.company, title |-> listing.title,
                                  salary |-> Undefined,
                                  description |-> listing.detail.description,
                                  hiringManager |-> listing.detail.hiringManager]
                  leadScore == calculateLeadScore(enhancedJob)
                IN  /\ hist' = [hist EXCEPT ![j].enriched = TRUE]
                    /\ w' = [w EXCEPT ![j].leadScore = leadScore,
                                      ![j].qualified = IF qualifies(leadScore) THEN @ + 1 ELSE @,
                                      ![j].pc = IF qualifies(leadScore)
                                                THEN "findCompany" ELSE "updateProgress"]
  /\ UNCHANGED <<jobs, companies, leads, queue, inflight, del, post, faults, scoreIn, scoreOut, site,
                 exportLogs, agencyOut, get>>

\* an awaited store call of the listing loop throws: the per-listing catch logs
\* the error and the loop continues with the next listing
ListingCatch(j) ==
  /\ faults < MaxFaults
  /\ faults' = faults + 1
  /\ w' = [w EXCEPT ![j] = NextListing([w[j] EXCEPT !.listingError = TRUE])]

\* ids of the company rows with this exact name
CompanyIds(name) == {i \in 1..Len(companies) : companies[i].name = name}

\* db.query.companies.findFirst({where: eq(companies.name, jobListing.company)})
W_FindCompany(j) ==
  /\ w[j].pc = "findCompany"
  /\ LET name == w[j].jobListings[w[j].idx].company
     IN  \/ /\ w' = [w EXCEPT ![j].pc = IF CompanyIds(name) # {}
                                        THEN "insertLead" ELSE "insertCompany"]
            /\ UNCHANGED faults
         \/ ListingCatch(j)
  /\ UNCHANGED <<jobs, companies, leads, queue, inflight, del, post, hist, scoreIn, scoreOut, site,
                 exportLogs, agencyOut, get>>

\* mutant: the insert does nothing when a row of that name exists (as an
\* ON CONFLICT DO NOTHING on a unique name would)
W_InsertCompany_unique(j) ==
  /\ w[j].pc = "insertCompany"
  /\ LET name == w[j].jobListings[w[j].idx].company
     IN  \/ /\ companies' = IF CompanyIds(name) # {} THEN companies
                             ELSE Append(companies,
                                         [name |-> name,
                                          isRecruitmentAgency |-> isRecruitmentAgency(name)])
            /\ w' = [w EXCEPT ![j].pc = "insertLead"]
            /\ UNCHANGED faults
         \/ /\ ListingCatch(j)
            /\ UNCHANGED companies
  /\ UNCHANGED <<jobs, leads, queue, inflight, del, post, hist, scoreIn, scoreOut, site,
                 exportLogs, agencyOut, get>>

\* db.insert(companies).values({name, isRecruitmentAgency}).returning()
W_InsertCompany(j) ==
  /\ w[j].pc = "insertCompany"
  /\ LET name == w[j].jobListings[w[j].idx].company
     IN  \/ /\ companies' = Append(companies,
                                   [name |-> name,
                                    isRecruitmentAgency |-> isRecruitmentAgency(name)])
            /\ w' = [w EXCEPT ![j].pc = "insertLead"]
            /\ UNCHANGED faults
         \/ /\ ListingCatch(j)
            /\ UNCHANGED companies
  /\ UNCHANGED <<jobs, leads, queue, inflight, del, post, hist, scoreIn, scoreOut, site,
                 exportLogs, agencyOut, get>>

\* db.insert(leads).values({...}).returning() and validLeads.push(...)
W_InsertLead(j) ==
  /\ w[j].pc = "insertLead"
  /\ LET listing == w[j].jobListings[w[j].idx]
     IN  \/ /\ leads' = Append(leads,
                               [jobId |-> j, jobUrl |-> listing.url,
                                company |-> listing.company,
                                leadScore |-> w[j].leadScore, isQualified |-> TRUE,
                                exportedToSheets |-> FALSE])
            /\ UNCHANGED hist
            /\ w' = [w EXCEPT ![j].validLeads = Append(@, listing.url),
                              ![j].pc = "updateProgress"]
            /\ UNCHANGED faults
         \/ /\ ListingCatch(j)
            /\ UNCHANGED leads
  /\ UNCHANGED <<jobs, companies, queue, inflight, del, post, hist, scoreIn, scoreOut, site,
                 exportLogs, agencyOut, get>>

\* Math.round(70 + ((processedCount / jobListings.length) * 20))
listingProgress(processedCount, total) == RoundDiv(70 * total + 20 * processedCount, total)

\* processedCount++ and the awaited db.update(jobs).set({progress, leadsGenerated})
W_UpdateProgress(j) ==
  /\ w[j].pc = "updateProgress"
  /\ LET wr == [w[j] EXCEPT !.processedCount = @ + 1]
     IN  \/ /\ jobs' = [jobs EXCEPT
                          ![j].progress = listingProgress(wr.processedCount,
                                                          Len(wr.jobListings)),
                          ![j].leadsGenerated = Len(wr.validLeads)]
            /\ w' = [w EXCEPT ![j] = NextListing(wr)]
            /\ UNCHANGED faults
         \/ /\ faults < MaxFaults
            /\ faults' = faults + 1
            /\ w' = [w EXCEPT ![j] = NextListing([wr EXCEPT !.listingError = TRUE])]
            /\ UNCHANGED jobs
  /\ UNCHANGED <<companies, leads, queue, inflight, del, post, hist, scoreIn, scoreOut, site,
                 exportLogs, agencyOut, get>>

\* db.update(leads).set({exportedToSheets: true, exportedAt}).where(eq(leads.jobUrl, url))
\* for every lead of validLeads
markExported(validLeads) ==
  [i \in 1..Len(leads) |->
     IF \E k \in 1..Len(validLeads) : validLeads[k] = leads[i].jobUrl
     THEN [leads[i] EXCEPT !.exportedToSheets = TRUE]
     ELSE leads[i]]

\* mutant: a failure of the export step is swallowed and the run completes
W_Export_swallowFailure(j) ==
  /\ w[j].pc = "createSheet"
  /\ hist' = [hist EXCEPT ![j].exported = TRUE]
  /\ \/ /\ leads' = markExported(w[j].validLeads)
        /\ w' = [w EXCEPT ![j].exportCalls = @ + 1, ![j].pc = "complete"]
        /\ UNCHANGED faults
     \/ /\ faults < MaxFaults
        /\ faults' = faults + 1
        /\ w' = [w EXCEPT ![j].exportCalls = @ + 1, ![j].exportFailed = TRUE,
                          ![j].pc = "complete"]
        /\ UNCHANGED leads
  /\ UNCHANGED <<jobs, companies, queue, inflight, del, post, scoreIn, scoreOut, site,
                 exportLogs, agencyOut, get>>

\* the export step: createSpreadsheet and exportLeads (either may throw, which
\* fails the run), then the leads are marked as exported
W_Export(j) ==
  /\ w[j].pc = "createSheet"
  /\ hist' = [hist EXCEPT ![j].exported = TRUE]
  /\ \/ /\ leads' = markExported(w[j].validLeads)
        /\ w' = [w EXCEPT ![j].exportCalls = @ + 1, ![j].pc = "complete"]
        /\ UNCHANGED faults
     \/ /\ faults < MaxFaults
        /\ faults' = faults + 1
        /\ w' = [w EXCEPT ![j].exportCalls = @ + 1, ![j].exportFailed = TRUE,
                          ![j].pc = "catch"]
        /\ UNCHANGED leads
  /\ UNCHANGED <<jobs, companies, queue, inflight, del, post, scoreIn, scoreOut, site,
                 exportLogs, agencyOut, get>>

\* "Mark job as completed"
W_Complete(j) ==
  /\ w[j].pc = "complete"
  /\ jobs' = [jobs EXCEPT ![j].status = "completed", ![j].progress = 100,
                          ![j].completedAt = TRUE]
  /\ w' = [w EXCEPT ![j].pc = "finish", ![j].outcome = "completed"]
  /\ UNCHANGED <<companies, leads, queue, inflight, del, post, hist, faults, scoreIn, scoreOut, site,
                 exportLogs, agencyOut, get>>

\* mutant: the outer catch rethrows without marking the job
W_Catch_rethrowOnly(j) ==
  /\ w[j].pc = "catch"
  /\ w' = [w EXCEPT ![j].pc = "finish", ![j].outcome = "failed"]
  /\ UNCHANGED <<jobs, companies, leads, queue, inflight, del, post, hist, faults, scoreIn, scoreOut,
                 site, exportLogs, agencyOut, get>>

\* the outer catch: "Mark job as failed", then rethrow
W_Catch(j) ==
  /\ w[j].pc = "catch"
  /\ jobs' = [jobs EXCEPT ![j].status = "failed", ![j].errorMessage = Some("error")]
  /\ w' = [w EXCEPT ![j].pc = "finish", ![j].outcome = "failed"]
  /\ UNCHANGED <<companies, leads, queue, inflight, del, post, hist, faults, scoreIn, scoreOut, site,
                 exportLogs, agencyOut, get>>

\* the state Bull moves a job to when its processor has settled
\* (attempts: 3: a failed job is run again until attemptsMade reaches 3)
settledState(outcome, attemptsMade) ==
  IF outcome = "completed" THEN "completed"
  ELSE IF attemptsMade < Attempts THEN "waiting" ELSE "failed"

\* finally { scraper.close() }, and Bull records the outcome of the attempt.
\* A failed attempt is run again only after the backoff delay (5000 ms and
\* more), by which time the un-awaited writes of the attempt have settled.
W_Finish(j) ==
  /\ w[j].pc = "finish"
  /\ \A u \in inflight : u.jobId # j
  /\ w' = [w EXCEPT ![j] = IdleWorker]
  /\ queue' = [queue EXCEPT ![j].attemptsMade =
                                  IF w[j].outcome = "completed" THEN @ ELSE @ + 1,
                                ![j].state = settledState(w[j].outcome,
                                                          queue[j].attemptsMade + 1)]
  /\ UNCHANGED <<jobs, companies, leads, inflight, del, post, hist, faults, scoreIn, scoreOut, site,
                 exportLogs, agencyOut, get>>

-----------------------------------------------------------------------------
(* The pipeline specification *)

\* a fixed listing for the scorer harness, which the pipeline leaves alone
IdleScoreIn ==
  [company |-> Name_Acme, title |-> Title_Engineer, salary |-> Undefined,
   description |-> Undefined, hiringManager |-> Undefined]

\* The store outlives a job.  An earlier job of an earlier submission may have
\* left its rows: it searched the same site with maxPages 1, inserted a lead
\* for the one listing of page 1, failed at the export step, and was cancelled
\* while it waited for its retry.
EarlierJob == "j0"

EarlierListing == PageJobs(1)[1]

EarlierScore ==
  calculateLeadScore([company |-> EarlierListing.company, title |-> EarlierListing.title,
                      salary |-> Undefined,
                      description |-> EarlierListing.detail.description,
                      hiringManager |-> EarlierListing.detail.hiringManager])

\* the earlier job found a listing on page 1 and the listing qualified
EarlierLeadPossible == Len(PageJobs(1)) = 1 /\ qualifies(EarlierScore)

EarlierJobRow ==
  [status |-> "cancelled",
   searchCriteria |-> [keywords |-> <<"f">>, location |-> <<"U">>,
                       maxPages |-> Some(Halves(1)), excludeAgencies |-> Undefined],
   progress |-> listingProgress(1, 1), totalJobsFound |-> 1, leadsGenerated |-> 1,
   errorMessage |-> Some("error"), completedAt |-> FALSE]

EarlierCompanies ==
  << [name |-> EarlierListing.company,
      isRecruitmentAgency |-> isRecruitmentAgency(EarlierListing.company)] >>

EarlierLeads ==
  << [jobId |-> EarlierJob, jobUrl |-> EarlierListing.url,
      company |-> EarlierListing.company, leadScore |-> EarlierScore,
      isQualified |-> TRUE, exportedToSheets |-> FALSE] >>

Init ==
  /\ site \in Sites
  /\ \/ /\ jobs = <<>>
        /\ companies = <<>>
        /\ leads = <<>>
     \/ /\ EarlierLeadPossible
        /\ jobs = (EarlierJob :> EarlierJobRow)
        /\ companies = EarlierCompanies
        /\ leads = EarlierLeads
  /\ queue = <<>>
  /\ w = [j \in JobIds \cup {EarlierJob} |-> IdleWorker]
  /\ inflight = {}
  /\ del = [j \in JobIds \cup {EarlierJob} |-> IdleDelete]
  /\ post = IdlePost
  /\ hist = [j \in JobIds \cup {EarlierJob} |-> NoHistory]
  /\ faults = 0
  /\ scoreIn = IdleScoreIn
  /\ scoreOut = Undefined
  /\ exportLogs = <<>>
  /\ agencyOut = Undefined
  /\ get = IdleGet

Next ==
  \/ P_Submit
  \/ P_Enqueue
  \/ LandProgress
  \/ \E j \in JobIds :
       \/ D_Start(j)
       \/ D_CancelJob(j)
       \/ D_Update(j)
       \/ Dispatch(j)
       \/ W_SetRunning(j)
       \/ W_Login(j)
       \/ W_Progress10(j)
       \/ W_FetchPage(j)
       \/ W_Enrich(j)
       \/ W_FindCompany(j)
       \/ W_InsertCompany(j)
       \/ W_InsertLead(j)
       \/ W_UpdateProgress(j)
       \/ W_Export(j)
       \/ W_Complete(j)
       \/ W_Catch(j)
       \/ W_Finish(j)

Spec == Init /\ [][Next]_vars

\* one step of the processor's invocation for job j: every awaited call of the
\* invocation returns or throws, so the invocation does not stop between steps
WorkerStep(j) ==
  \/ W_SetRunning(j)
  \/ W_Login(j)
  \/ W_Progress10(j)
  \/ W_FetchPage(j)
  \/ W_Enrich(j)
  \/ W_FindCompany(j)
  \/ W_InsertCompany(j)
  \/ W_InsertLead(j)
  \/ W_UpdateProgress(j)
  \/ W_Export(j)
  \/ W_Complete(j)
  \/ W_Catch(j)

\* the pipeline with an invocation that keeps going; requests, dispatch and the
\* landing of un-awaited writes stay free to happen or not
\* the submission of a liveness run: two pages are asked for, agencies are not
\* excluded
FairBody ==
  [keywords |-> <<"f">>, location |-> <<"U">>, maxPages |-> Some(Halves(2)),
   excludeAgencies |-> Undefined]

\* the submission has been accepted: a pending row and a waiting queue job
\* the sites of a liveness run: one result page, or two result pages of one card
\* each, the first with a detail page that yields a hiring manager and the
\* second with one that yields nothing
FairSites ==
  {s \in Sites :
     \/ Len(s) = 1
     \/ /\ Len(s) = 2
        /\ Len(s[1]) = 1 /\ s[1][1].detail = RichDetail
        /\ Len(s[2]) = 1 /\ s[2][1].detail = PoorDetail}

FairInit ==
  /\ site \in FairSites
  /\ jobs = [j \in JobIds |-> NewJobRow(FairBody)]
  /\ companies = <<>>
  /\ leads = <<>>
  /\ queue = [j \in JobIds |-> [state |-> "waiting", attemptsMade |-> 0, data |-> FairBody]]
  /\ w = [j \in JobIds |-> IdleWorker]
  /\ inflight = {}
  /\ del = [j \in JobIds |-> IdleDelete]
  /\ post = IdlePost
  /\ hist = [j \in JobIds |-> NoHistory]
  /\ faults = 0
  /\ scoreIn = IdleScoreIn
  /\ scoreOut = Undefined
  /\ exportLogs = <<>>
  /\ agencyOut = Undefined
  /\ get = IdleGet

\* the cancellation handler, the dispatcher and the processor
FairNext ==
  \/ LandProgress
  \/ \E j \in JobIds :
       \/ D_Start(j)
       \/ D_CancelJob(j)
       \/ D_Update(j)
       \/ Dispatch(j)
       \/ WorkerStep(j)
       \/ W_Finish(j)

FairSpec == FairInit /\ [][FairNext]_vars /\ \A j \in JobIds : WF_vars(WorkerStep(j))

\* the pipeline of an accepted submission together with the listing handler
ListNext ==
  \/ FairNext
  \/ G_ReadQueue
  \/ G_ReadStore

ListSpec == FairInit /\ [][ListNext]_vars

-----------------------------------------------------------------------------
(* Two jobs on independent workers: each worker process runs the processor on
   its own job, against the one store *)

RaceJobs == {"j1", "j2"}

\* the search both submissions ask for
RaceBody ==
  [keywords |-> <<"f">>, location |-> <<"U">>, maxPages |-> Some(Halves(1)),
   excludeAgencies |-> Undefined]

\* both submissions have been accepted: two pending rows, two waiting queue jobs
RaceInit ==
  /\ site \in {s \in Sites : Len(s) = 1}
  /\ jobs = [j \in RaceJobs |-> NewJobRow(RaceBody)]
  /\ companies = <<>>
  /\ leads = <<>>
  /\ queue = [j \in RaceJobs |-> [state |-> "waiting", attemptsMade |-> 0, data |-> RaceBody]]
  /\ w = [j \in RaceJobs |-> IdleWorker]
  /\ inflight = {}
  /\ del = [j \in RaceJobs |-> IdleDelete]
  /\ post = IdlePost
  /\ hist = [j \in RaceJobs |-> NoHistory]
  /\ faults = 0
  /\ scoreIn = IdleScoreIn
  /\ scoreOut = Undefined
  /\ exportLogs = <<>>
  /\ agencyOut = Undefined
  /\ get = IdleGet

RaceNext ==
  \/ LandProgress
  \/ \E j \in RaceJobs :
       \/ Dispatch(j)
       \/ W_SetRunning(j)
       \/ W_Login(j)
       \/ W_Progress10(j)
       \/ W_FetchPage(j)
       \/ W_Enrich(j)
       \/ W_FindCompany(j)
       \/ W_InsertCompany(j)
       \/ W_InsertLead(j)
       \/ W_UpdateProgress(j)
       \/ W_Export(j)
       \/ W_Complete(j)
       \/ W_Catch(j)
       \/ W_Finish(j)

RaceSpec == RaceInit /\ [][RaceNext]_vars

-----------------------------------------------------------------------------
(* The scorer harness: every listing of ScoreInputs is scored once *)

ScoreInit ==
  /\ jobs = <<>>
  /\ companies = <<>>
  /\ leads = <<>>
  /\ queue = <<>>
  /\ w = [j \in JobIds |-> IdleWorker]
  /\ inflight = {}
  /\ del = [j \in JobIds |-> IdleDelete]
  /\ post = IdlePost
  /\ hist = [j \in JobIds |-> NoHistory]
  /\ faults = 0
  /\ site = <<>>
  /\ scoreIn \in ScoreInputs
  /\ scoreOut = Undefined
  /\ exportLogs = <<>>
  /\ agencyOut = Undefined
  /\ get = IdleGet

ScoreListing ==
  /\ scoreOut = Undefined
  /\ scoreOut' = Some(calculateLeadScore(scoreIn))
  /\ UNCHANGED <<scoreIn, agencyOut, site, pipelineVars>>

\* a company name is handed to isRecruitmentAgency
ClassifyCompany ==
  /\ agencyOut = Undefined
  /\ \E companyName \in CompanyNames :
       agencyOut' = Some([companyName |-> companyName,
                          result |-> isRecruitmentAgency(companyName)])
  /\ UNCHANGED <<scoreIn, scoreOut, site, pipelineVars>>

ScoreNext == ScoreListing \/ ClassifyCompany

ScoreSpec == ScoreInit /\ [][ScoreNext]_vars

-----------------------------------------------------------------------------
(* Claims about the job lifecycle *)

\* C1: once a job's stored status is completed, failed or cancelled, no later
\* step (a worker run, a retry, a cancel request) changes the status again.
C1_TerminalIsFinal ==
  [][\A j \in DOMAIN jobs :
       jobs[j].status \in Terminal => jobs'[j].status = jobs[j].status]_vars

\* C2: the cancellation handler writes status cancelled only over a status
\* that is pending or running (never over failed, cancelled or completed).
C2_CancelOnlyFromPendingOrRunning ==
  [][\A j \in DOMAIN jobs :
       (del[j].pc = "update" /\ del'[j].pc = "idle")
         => jobs[j].status \in {"pending", "running"}]_vars

\* C3: a cancel request that finds the stored status completed is answered
\* with the 400 error at once, and changes neither the jobs table nor the
\* queue (the handler ends there: no removal is attempted).
C3_CompletedCancelRejected ==
  [][\A j \in DOMAIN jobs :
       (del[j].pc = "idle" /\ del'[j].nreq = del[j].nreq + 1
          /\ jobs[j].status = "completed")
         => (del'[j].pc = "idle" /\ del'[j].response = 400
               /\ jobs' = jobs /\ queue' = queue)]_vars

\* a cancel request has been rejected with 400 for a completed job
C3_Witness ==
  \E j \in DOMAIN jobs :
    del[j].nreq > 0 /\ del[j].response = 400 /\ jobs[j].status = "completed"

\* rows of the leads table that belong to job j
LeadsOf(j) == {i \in 1..Len(leads) : leads[i].jobId = j}

\* C4: when a cancel request that found the job pending has succeeded, no
\* enrichment fetch, lead insert or export step has been or is ever performed
\* for that job.
C4_PendingCancelNoWork ==
  \A j \in JobIds :
    hist[j].cancelledPending
      => (~hist[j].enriched /\ ~hist[j].exported /\ LeadsOf(j) = {})

\* C5: while a job is running, no step lowers its stored progress.
C5_ProgressMonotone ==
  [][\A j \in DOMAIN jobs :
       jobs[j].status = "running" => jobs'[j].progress >= jobs[j].progress]_vars

\* C6: a job whose stored status is completed has stored progress 100.
C6_CompletedHasProgress100 ==
  \A j \in DOMAIN jobs : jobs[j].status = "completed" => jobs[j].progress = 100

C8_StopsAtLastPageWithTotal ==
  \A j \in DOMAIN jobs :
    (/\ w[j].pc = "finish" /\ w[j].outcome = "completed"
     /\ jobs[j].status = "completed"
     /\ IsInteger(maxPagesOf(w[j].criteria))
     /\ w[j].lastPage > 0 /\ Halves(w[j].lastPage) <= maxPagesOf(w[j].criteria)
     /\ \A u \in inflight : u.jobId # j)
      => (/\ w[j].fetched = 1..w[j].lastPage
          /\ jobs[j].totalJobsFound = Len(w[j].jobListings))

-----------------------------------------------------------------------------
(* Claims about the lead scorer, checked under ScoreSpec *)

\* C9: for every listing calculateLeadScore returns an integer in [0,100].
C9_ScoreInRange ==
  scoreOut # Undefined => scoreOut[1] \in 0..100

\* a listing whose bonuses add up to more than 100 has been scored
C9_Witness ==
  /\ scoreOut # Undefined
  /\ ~isRecruitmentAgency(scoreIn.company)
  /\ TruthyStr(hmField(scoreIn, "name"))
  /\ TruthyStr(hmField(scoreIn, "email"))

Bonus(cond, points) == IF cond THEN points ELSE 0

\* the score the specification gives for a listing
SpecifiedScore(job) ==
  Min(100, Max(0,
    50 + (IF isRecruitmentAgency(job.company) THEN -20 ELSE 30)
       + Bonus(TruthyStr(hmField(job, "name")), 15)
       + Bonus(TruthyStr(hmField(job, "email")), 20)
       + Bonus(TruthyStr(job.salary), 10)
       + Bonus(job.description # Undefined /\ job.description[1] > 200, 5)
       + Bonus(\E i \in 1..Len(qualityKeywords) :
                 includes(toLowerCase(job.title), qualityKeywords[i]), 10)))

\* every bonus applies to the listing
AllBonuses(job) ==
  /\ ~isRecruitmentAgency(job.company)
  /\ TruthyStr(hmField(job, "name")) /\ TruthyStr(hmField(job, "email"))
  /\ TruthyStr(job.salary)
  /\ job.description # Undefined /\ job.description[1] > 200
  /\ \E i \in 1..Len(qualityKeywords) : includes(toLowerCase(job.title), qualityKeywords[i])

\* an agency listing to which no bonus applies
AgencyNoBonus(job) ==
  /\ isRecruitmentAgency(job.company)
  /\ ~TruthyStr(hmField(job, "name")) /\ ~TruthyStr(hmField(job, "email"))
  /\ ~TruthyStr(job.salary)
  /\ ~(job.description # Undefined /\ job.description[1] > 200)
  /\ ~\E i \in 1..Len(qualityKeywords) : includes(toLowerCase(job.title), qualityKeywords[i])

\* C10: calculateLeadScore is min(100, max(0, 50 + 30 or -20 + the bonuses));
\* all bonuses on a non-agency give 100, an agency with no bonus gives 30.
C10_ScoreFormula ==
  scoreOut # Undefined
    => /\ scoreOut[1] = SpecifiedScore(scoreIn)
       /\ (AllBonuses(scoreIn) => scoreOut[1] = 100)
       /\ (AgencyNoBonus(scoreIn) => scoreOut[1] = 30)

\* an agency listing with no bonus has been scored
C10_Witness ==
  scoreOut # Undefined /\ AgencyNoBonus(scoreIn)

-----------------------------------------------------------------------------
(* Claims about submission *)

\* the SearchSpecification is valid: keywords and location non-empty, maxPages
\* (when given) an integer in 1..20
ValidSearchSpecification(criteria) ==
  /\ Len(criteria.keywords) >= 1
  /\ Len(criteria.location) >= 1
  /\ (criteria.maxPages # Undefined
        => /\ IsInteger(criteria.maxPages[1])
           /\ criteria.maxPages[1] >= Halves(1)
           /\ criteria.maxPages[1] <= Halves(20))

\* C13: a submission creates a job row (exactly one, with status pending) and
\* enqueues a job only when its SearchSpecification is valid; an invalid
\* submission creates no row and enqueues nothing.
C13_InvalidSubmissionRejected ==
  [][/\ \A id \in DOMAIN jobs' \ DOMAIN jobs :
          /\ ValidSearchSpecification(jobs'[id].searchCriteria)
          /\ jobs'[id].status = "pending"
          /\ Cardinality(DOMAIN jobs' \ DOMAIN jobs) = 1
     /\ \A id \in DOMAIN queue' \ DOMAIN queue :
          ValidSearchSpecification(queue'[id].data)]_vars

-----------------------------------------------------------------------------
(* Claims about the agency classifier, checked under ScoreSpec *)

\* sub occurs in s as a run of consecutive characters
IsSubstring(sub, s) ==
  \E a \in 1..(Len(s) + 1) : \E b \in 0..Len(s) : SubSeq(s, a, b) = sub

\* the lower-cased name contains one of the configured agency keywords
ContainsAgencyKeyword(companyName) ==
  \E i \in 1..Len(RECRUITMENT_AGENCY_KEYWORDS) :
    IsSubstring(RECRUITMENT_AGENCY_KEYWORDS[i], toLowerCase(companyName))

\* C11: isRecruitmentAgency(name) is true exactly when the lower-cased name
\* contains a configured agency keyword, and names that differ only in letter
\* case get the same result.
C11_AgencyIffKeyword ==
  agencyOut # Undefined
    => /\ agencyOut[1].result = ContainsAgencyKeyword(agencyOut[1].companyName)
       /\ \A other \in CompanyNames :
            toLowerCase(other) = toLowerCase(agencyOut[1].companyName)
              => isRecruitmentAgency(other) = agencyOut[1].result

\* a name that carries a keyword in upper case has been classified as an agency
C11_Witness ==
  /\ agencyOut # Undefined
  /\ agencyOut[1].companyName = Name_HaysUpper
  /\ agencyOut[1].result

-----------------------------------------------------------------------------
(* Claims about the listing loop, the export step and the store *)

\* C12: every lead row has leadScore > 40 and isQualified true, and a row is
\* added to the leads or the companies table only for a listing whose score
\* is above 40 (a listing scoring 40 or less adds neither).
C12_OnlyQualifiedPersisted ==
  /\ [](\A i \in 1..Len(leads) : leads[i].leadScore > 40 /\ leads[i].isQualified)
  /\ [][(Len(leads') > Len(leads) \/ Len(companies') > Len(companies))
          => \E j \in JobIds :
               /\ w[j].pc \in {"insertCompany", "insertLead"}
               /\ w[j].leadScore > 40]_vars
  /\ [](\A j \in JobIds :
          w[j].pc \in {"findCompany", "insertCompany", "insertLead"}
            => w[j].leadScore > 40)

\* a listing that scored 40 or less has gone past the persistence steps, and
\* the store holds no lead and no company
C12_Witness ==
  \E j \in JobIds :
    /\ w[j].pc = "updateProgress" /\ w[j].leadScore <= 40
    /\ leads = <<>> /\ companies = <<>>

\* C14: whenever a job's stored status is completed, its stored leadsGenerated
\* is the number of lead rows the store holds for the job.
C14_LeadsGeneratedMatchesRows ==
  \A j \in DOMAIN jobs :
    jobs[j].status = "completed" => jobs[j].leadsGenerated = Cardinality(LeadsOf(j))

\* C15: when fetching or extracting a result page has failed in a run of a
\* job (maxPages an integer), no page after that page is fetched in the run.
C15_PaginationStopsAtFailedPage ==
  \A j \in JobIds :
    (w[j].failedPage > 0 /\ IsInteger(maxPagesOf(w[j].criteria)))
      => \A p \in w[j].fetched : p <= w[j].failedPage

\* C16: a run in which a store call of the listing loop has failed (company
\* lookup or insert, lead insert, per-listing progress update) does not write
\* completed: it ends with the failed write.
C16_ListingWriteFailureFailsJob ==
  \A j \in JobIds :
    (w[j].listingError /\ w[j].pc = "finish")
      => (w[j].outcome = "failed" /\ jobs[j].errorMessage # Undefined)

InLoops(pc) ==
  pc \in {"search", "listings", "findCompany", "insertCompany", "insertLead",
          "updateProgress"}

\* C18: within one run the export step is invoked at most once, and only when
\* every discovered listing has been processed; no listing is processed once
\* the export step has started; and when the run holds at least one lead the
\* completion write happens only after one successful export.
C18_ExportOnceAfterAllListings ==
  /\ [](\A j \in JobIds :
          /\ w[j].exportCalls <= 1
          /\ (w[j].pc = "createSheet" \/ w[j].exportCalls > 0)
               => (w[j].loopDone /\ w[j].idx > Len(w[j].jobListings))
          /\ InLoops(w[j].pc) => (w[j].exportCalls = 0 /\ ~w[j].loopDone))
  /\ [][\A j \in JobIds :
          (w[j].pc = "complete" /\ w'[j].pc = "finish" /\ Len(w[j].validLeads) > 0)
            => (w[j].exportCalls = 1 /\ ~w[j].exportFailed)]_vars

\* a run with two listings has exported once and written completed
C18_Witness ==
  \E j \in JobIds :
    /\ w[j].pc = "finish" /\ w[j].outcome = "completed"
    /\ w[j].exportCalls = 1 /\ Len(w[j].jobListings) = 2

\* C19: a lead's exportedToSheets flag becomes true only by a successful
\* export step of the job that owns the lead; the export step of a job leaves
\* the leads of every other job as they are.
C19_ExportMarksOnlyOwnLeads ==
  [][\A i \in 1..Len(leads) :
       (~leads[i].exportedToSheets /\ leads'[i].exportedToSheets)
         => /\ leads[i].jobId \in JobIds
            /\ w[leads[i].jobId].pc = "createSheet"
            /\ w'[leads[i].jobId].pc = "complete"]_vars

\* rows of the export_logs table that belong to job j
LogsOf(j) == {i \in 1..Len(exportLogs) : exportLogs[i].jobId = j}

\* C20: every export attempt of a job has appended one export_logs row for the
\* job, and no step changes or removes a row the table already holds.
C20_ExportAttemptLogged ==
  /\ [](\A j \in JobIds :
          /\ hist[j].exported => LogsOf(j) # {}
          /\ Cardinality(LogsOf(j)) >= w[j].exportCalls)
  /\ [][/\ Len(exportLogs') >= Len(exportLogs)
        /\ \A i \in 1..Len(exportLogs) : exportLogs'[i] = exportLogs[i]]_vars

-----------------------------------------------------------------------------
(* Claims about the stored job row *)

\* the processor has enriched and scored the current listing of the loop
PastEnrichment(pc) ==
  pc \in {"findCompany", "insertCompany", "insertLead", "updateProgress"}

\* C21: in a job whose submission omitted excludeAgencies, no listing whose
\* company classifies as an agency gets past the skip: none is enriched,
\* scored or persisted.
C21_OmittedExcludeAgenciesSkips ==
  \A j \in JobIds :
    (w[j].criteria.excludeAgencies = Undefined /\ PastEnrichment(w[j].pc))
      => ~isRecruitmentAgency(w[j].jobListings[w[j].idx].company)

\* C22: a job whose stored errorMessage is set has stored status failed (stated
\* for the jobs submitted in the behaviour).
C22_ErrorMessageOnlyOnFailed ==
  \A j \in DOMAIN jobs \cap JobIds :
    jobs[j].errorMessage # Undefined => jobs[j].status = "failed"

\* C23: completedAt is set exactly when the stored status is completed, failed
\* or cancelled (stated for the jobs submitted in the behaviour).
C23_CompletedAtOnTerminal ==
  \A j \in DOMAIN jobs \cap JobIds : jobs[j].completedAt <=> jobs[j].status \in Terminal

\* C24: no step lowers the stored totalJobsFound or the stored leadsGenerated
\* of a job.
C24_CountersMonotone ==
  [][\A j \in DOMAIN jobs :
       /\ jobs'[j].totalJobsFound >= jobs[j].totalJobsFound
       /\ jobs'[j].leadsGenerated >= jobs[j].leadsGenerated]_vars


-----------------------------------------------------------------------------
(* Claims about lead rows and about the queue *)

\* C28: for one job no two lead rows refer to the same listing URL, also when
\* the job is run again after a failed attempt.
C28_NoDuplicateLeadUrl ==
  \A i \in DOMAIN leads : \A k \in DOMAIN leads :
    (i # k /\ leads[i].jobId = leads[k].jobId) => leads[i].jobUrl # leads[k].jobUrl

\* C29: every pending job row has a queue job; once the submission has finished,
\* with success or with an error, no pending row is left that was never enqueued.
C29_PendingRowIsQueued ==
  \A j \in DOMAIN jobs \cap JobIds :
    (post.pc = "idle" /\ del[j].pc = "idle" /\ jobs[j].status = "pending")
      => j \in DOMAIN queue

-----------------------------------------------------------------------------
(* Claims about the qualification threshold, checked under ScoreSpec *)

-----------------------------------------------------------------------------
(* Claims about concurrent jobs, checked under RaceSpec *)

\* C25: when two jobs run at once, both can look a company up, find no row and
\* insert one: nothing stops the insert of a worker whose lookup found no row,
\* whatever rows have been inserted since, so two rows of one name are reachable.
C25_InsertAfterMissAlwaysAdds ==
  [][\A j \in RaceJobs :
       (w[j].pc = "insertCompany" /\ w'[j].pc = "insertLead")
         => /\ Len(companies') = Len(companies) + 1
            /\ companies'[Len(companies')].name = w[j].jobListings[w[j].idx].company]_vars

\* the store holds two company rows of the same name
C25_Witness ==
  \E i \in DOMAIN companies : \E k \in DOMAIN companies :
    i # k /\ companies[i].name = companies[k].name


-----------------------------------------------------------------------------
(* Claims about termination, checked under FairSpec *)

-----------------------------------------------------------------------------
(* Claims about the listing interface, checked under ListSpec *)

\* C27: in every response of the listing interface every entry of the active
\* bucket has status pending or running, every entry of the completed bucket
\* has a terminal status, and no job id is in both buckets.
C27_BucketsConsistent ==
  (get.response # Undefined /\ get.response[1].status = 200)
    => LET r == get.response[1]
       IN  /\ \A e \in r.active : e.status \in {"pending", "running"}
           /\ \A e \in r.completed : e.status \in Terminal
           /\ {e.id : e \in r.active} \cap {e.id : e \in r.completed} = {}

====
